---- MODULE Spec2Model ----
(***************************************************************************)
(* Smart-scale prototype: the ScaleConnector React component (connection   *)
(* lifecycle, frame handler, teardown) and the parseScaleData frame        *)
(* decoder it drives, together with the part of the Web Bluetooth          *)
(* environment the component talks to (devices, GATT links, event          *)
(* listeners).                                                             *)
(*                                                                         *)
(* Conventions.                                                            *)
(*  - A weight is kept in tenths of the unit (an integer), because the     *)
(*    decoder divides a 16-bit integer by 1 or by 10: weight 50.0 is 500.  *)
(*  - A React closure is modelled by the values it captured at the render  *)
(*    that created it.  handleCharacteristicValueChanged is memoised on    *)
(*    [lastStableReading, onStableReading]; its identity is handlerGen,    *)
(*    which changes whenever one of the two dependencies changes.          *)
(*  - State setters called after the component unmounted have no effect.   *)
(*  - A promise resolution and the continuation awaiting it run in one     *)
(*    step (the continuation is a microtask of the resolving task).        *)
(*  - Web Bluetooth: requestDevice returns the same BluetoothDevice object  *)
(*    for the same device, so listeners added to it accumulate; the        *)
(*    characteristic object belongs to one link of its device (epoch) and  *)
(*    is dropped when that link closes; an operation pending on a link     *)
(*    that closed rejects.                                                 *)
(*  - A reading is (weight, unit, isStable); its timestamp is Date.now()   *)
(*    and takes part in no comparison.                                     *)
(***************************************************************************)
EXTENDS Integers, Sequences, FiniteSets, TLC

(* ------------------------------- bounds -------------------------------- *)
MaxAttempts == 2   \* connect attempts started in one behaviour
MaxGen == 2        \* handler identities created in one behaviour
MoreAttempts == 3  \* connect attempts of the longer behaviours (LongSpec)
MaxFrameLen == 13  \* byte lengths 0..MaxFrameLen of the frames decoded directly
MaxUnitCode == 7   \* unit-code bytes 0..MaxUnitCode put into those frames

(* ------------------------- frame decoder (pure) ------------------------ *)
RangeError == -1

NoReading == [weight |-> 0, unit |-> "null", isStable |-> FALSE]

UNIT_MAP == [c \in 0..6 |->
               CASE c = 0 -> "g"
                 [] c = 1 -> "oz"
                 [] c = 2 -> "g"
                 [] c = 3 -> "fl oz"
                 [] c = 4 -> "ml"
                 [] c = 5 -> "fl oz"
                 [] c = 6 -> "oz"]

\* UNIT_MAP[unitCode] || "g"
UnitOf(unitCode) == IF unitCode \in DOMAIN UNIT_MAP THEN UNIT_MAP[unitCode] ELSE "g"

\* DataView.getUint8: throws RangeError outside the view
GetUint8(data, offset) ==
  IF offset >= 0 /\ offset + 1 <= Len(data) THEN data[offset + 1] ELSE RangeError

\* DataView.getUint16: throws RangeError when the two bytes are not both inside
GetUint16(data, offset, littleEndian) ==
  IF offset >= 0 /\ offset + 2 <= Len(data)
  THEN IF littleEndian THEN data[offset + 1] + 256 * data[offset + 2]
                       ELSE 256 * data[offset + 1] + data[offset + 2]
  ELSE RangeError

\* the value of a call that ended by a throw instead of a return
Threw == [weight |-> 0, unit |-> "RangeError", isStable |-> FALSE]

\* variant: Method 1 reads one byte earlier (offsets 9, 10..11), inside a
\* 12-byte view
Method1TryShifted(data) ==
  IF GetUint8(data, 9) = RangeError \/ GetUint16(data, 10, TRUE) = RangeError
  THEN Threw
  ELSE LET sign == IF GetUint8(data, 9) = 0 THEN 1 ELSE -1
           rawWeight == GetUint16(data, 10, TRUE)
       IN IF rawWeight > 0 /\ rawWeight < 50000
          THEN [weight |-> sign * rawWeight * 10, unit |-> "g", isStable |-> TRUE]
          ELSE NoReading

\* Method 1, the statements inside its try (fixed offsets 10, 11..12, 14)
Method1Try(data) ==
  IF GetUint8(data, 10) = RangeError \/ GetUint16(data, 11, TRUE) = RangeError
  THEN Threw
  ELSE LET sign == IF GetUint8(data, 10) = 0 THEN 1 ELSE -1
           rawWeight == GetUint16(data, 11, TRUE)
           unitCode == IF Len(data) > 14 THEN GetUint8(data, 14) ELSE 0
       IN IF unitCode = RangeError
          THEN Threw
          ELSE IF rawWeight > 0 /\ rawWeight < 50000
          THEN [weight |-> sign * rawWeight * (IF unitCode = 2 THEN 1 ELSE 10),
                unit |-> UnitOf(unitCode),
                isStable |-> TRUE]
          ELSE NoReading

\* Method 1 with its catch: a throw inside the try is logged and yields no value
Method1(data) ==
  LET r == Method1Try(data) IN IF r = Threw THEN NoReading ELSE r

\* variant: Method 2 assumes every candidate stable, as Method 1 does
Method2AtTryAssumeStable(data, offset) ==
  LET rawWeight == GetUint16(data, offset, FALSE)
      nextByte == IF offset + 2 < Len(data) THEN GetUint8(data, offset + 2) ELSE 0
  IN IF rawWeight = RangeError \/ nextByte = RangeError
     THEN Threw
     ELSE IF rawWeight > 0 /\ rawWeight < 10000 /\ nextByte <= 6
     THEN LET signByte == IF offset > 0 THEN GetUint8(data, offset - 1) ELSE 0
              sign == IF signByte = 0 THEN 1 ELSE -1
              unitCode == nextByte
              stableByte == IF offset + 3 < Len(data)
                            THEN GetUint8(data, offset + 3)
                            ELSE 1
              isStable == TRUE
              divisor == IF unitCode = 2 \/ unitCode >= 3 THEN 10 ELSE 1
              weight == sign * rawWeight * (IF divisor = 10 THEN 1 ELSE 10)
          IN IF signByte = RangeError \/ stableByte = RangeError
             THEN Threw
             ELSE IF weight > 0 /\ weight <= 50000
             THEN [weight |-> weight, unit |-> UnitOf(unitCode), isStable |-> isStable]
             ELSE NoReading
     ELSE NoReading

\* Method 2, the statements inside the try of one scan offset
Method2AtTry(data, offset) ==
  LET rawWeight == GetUint16(data, offset, FALSE)
      nextByte == IF offset + 2 < Len(data) THEN GetUint8(data, offset + 2) ELSE 0
  IN IF rawWeight = RangeError \/ nextByte = RangeError
     THEN Threw
     ELSE IF rawWeight > 0 /\ rawWeight < 10000 /\ nextByte <= 6
     THEN LET signByte == IF offset > 0 THEN GetUint8(data, offset - 1) ELSE 0
              sign == IF signByte = 0 THEN 1 ELSE -1
              unitCode == nextByte
              stableByte == IF offset + 3 < Len(data)
                            THEN GetUint8(data, offset + 3)
                            ELSE 1
              isStable == stableByte = 1
              divisor == IF unitCode = 2 \/ unitCode >= 3 THEN 10 ELSE 1
              weight == sign * rawWeight * (IF divisor = 10 THEN 1 ELSE 10)
          IN IF signByte = RangeError \/ stableByte = RangeError
             THEN Threw
             ELSE IF weight > 0 /\ weight <= 50000
             THEN [weight |-> weight, unit |-> UnitOf(unitCode), isStable |-> isStable]
             ELSE NoReading
     ELSE NoReading

\* Method 2, one scan offset with its catch: a throw continues with the next offset
Method2At(data, offset) ==
  LET r == Method2AtTry(data, offset) IN IF r = Threw THEN NoReading ELSE r

\* Method 2: for (offset = 0; offset <= byteLength - 4; offset++), first accepted
RECURSIVE Method2(_, _)
Method2(data, offset) ==
  IF offset > Len(data) - 4 THEN NoReading
  ELSE LET r == Method2At(data, offset)
       IN IF r # NoReading THEN r ELSE Method2(data, offset + 1)

\* Method 2: the scan offset at which the loop returns, -1 when it returns nothing
RECURSIVE Method2Offset(_, _)
Method2Offset(data, offset) ==
  IF offset > Len(data) - 4 THEN -1
  ELSE IF Method2At(data, offset) # NoReading THEN offset
  ELSE Method2Offset(data, offset + 1)

\* the statements inside the outer try of parseScaleData
ParseTry(data) ==
  IF Len(data) = 8 THEN NoReading
  ELSE IF Len(data) = 12
       THEN LET r == Method1(data)
            IN IF r # NoReading THEN r ELSE Method2(data, 0)
       ELSE NoReading

\* variant: no length checks and no try/catch around the reads
parseScaleDataUnguarded(data) ==
  LET r == Method1Try(data) IN IF r # NoReading THEN r ELSE Method2(data, 0)

\* variant: the 12-byte check is dropped, every frame of 3 bytes or more is scanned
parseScaleDataAnyLength(data) ==
  IF Len(data) < 3 THEN NoReading
  ELSE LET r == Method1(data) IN IF r # NoReading THEN r ELSE Method2(data, 0)

parseScaleData(data) ==
  IF Len(data) < 3 THEN NoReading
  ELSE LET r == ParseTry(data) IN IF r = Threw THEN NoReading ELSE r

(* ------------------- frames delivered to the component ------------------ *)
\* 12-byte frame whose only Method 2 candidate sits at offset 7
WeightFrame(hi, lo, unitCode, stableByte) ==
  <<0, 0, 0, 0, 0, 0, 0, hi, lo, unitCode, stableByte, 0>>

Heartbeat == <<0, 0, 0, 0, 0, 0, 0, 0>>

\* characteristic.value of a notification: absent, or a DataView
NoValue == [hasValue |-> FALSE, data |-> <<>>]
Value(data) == [hasValue |-> TRUE, data |-> data]

Notifications ==
  { NoValue, Value(Heartbeat),
    Value(WeightFrame(0, 0, 0, 0)),      \* 12 bytes, no acceptable value
    Value(<<0, 100, 0, 1, 0>>),          \* unexpected length
    Value(WeightFrame(0, 100, 0, 1)),    \* 100 g, stable
    Value(WeightFrame(0, 100, 0, 0)),    \* 100 g, not stable
    Value(WeightFrame(0, 200, 0, 1)) }   \* 200 g, stable

(* --------------------------- values and nulls --------------------------- *)
Devices == {"d1", "d2"}          \* BluetoothDevice objects the chooser can return
NoDevice == "null"
NoCharacteristic == [dev |-> "null", epoch |-> 0]
NoError == "null"

ConnectionStates == {"disconnected", "connecting", "connected", "error"}

UnsupportedMessage == "Web Bluetooth is not supported in this browser"
DefaultMessage == "Failed to connect to scale"

\* what an awaited handshake step can throw: an Error carrying a message, or
\* a value that is not an Error
Thrown == { [isError |-> TRUE, message |-> "NetworkError"],
            [isError |-> FALSE, message |-> ""] }

\* err instanceof Error ? err.message : "Failed to connect to scale"
ErrMessage(err) == IF err.isError THEN err.message ELSE DefaultMessage

PendingPcs == {"requestDevice", "gattConnect", "getPrimaryService",
               "getCharacteristic", "startNotifications"}

NoCalls == [notify |-> 0, close |-> 0, remove |-> 0, caught |-> NoError,
            frame |-> "null", escaped |-> FALSE]

(* -------------------------------- state -------------------------------- *)
VARIABLES
  connectionState,     \* useState<ConnectionState>
  device,              \* useState<BluetoothDevice | null>
  characteristic,      \* useState<BluetoothRemoteGATTCharacteristic | null>
  currentReading,      \* useState<ScaleReading | null>
  error,               \* useState<string | null>
  lastStableReading,   \* useState<ScaleReading | null>
  handlerGen,          \* identity of handleCharacteristicValueChanged of the current render
  mounted,             \* the ScaleConnector component is mounted
  supported,           \* "bluetooth" in navigator
  attempts,            \* the connectToScaleDevice calls, each with its position and closure
  gatt,                \* per device: link open, link generation, notifications started
  frameListeners,      \* "characteristicvaluechanged" listeners registered on characteristics
  disconnectListeners, \* per device: number of "gattserverdisconnected" listeners
  calls,               \* what the last step did: calls of onStableReading, of
                       \* gatt.disconnect() and of removeEventListener, message
                       \* caught, outcome of decoding a frame ("none", "reading"),
                       \* whether an exception escaped the handler
  lastNotified,        \* the reading most recently passed to onStableReading
  disconnectCompleted, \* an explicit disconnect() completed and no connect was started since
  lastConnectFrom,     \* the connectionState in which connect was last clicked
  view,                \* the DataView handed to a direct call of parseScaleData
  parsed,              \* what that call returned
  ownerReading,        \* ScaleApp: useState<ScaleReading | null> (its currentReading)
  ingredients,         \* ScaleApp: useState<NutritionData[]>, entries named by
                       \* the number of their confirmation
  isLoadingNutrition,  \* ScaleApp: useState(false)
  nutritionCall,       \* the getNutritionData call in flight, if any
  stored,              \* localStorage item "scale-ingredients"
  confirmed,           \* the confirmations that succeeded since the last Clear All
  confirmCount,        \* number of confirmations submitted
  attemptsAllowed      \* connect attempts the behaviour may start

compState == <<connectionState, device, characteristic, currentReading, error,
               lastStableReading, handlerGen>>
history == <<lastNotified, disconnectCompleted, lastConnectFrom>>
direct == <<view, parsed>>
owner == <<ownerReading, ingredients, isLoadingNutrition, nutritionCall, stored,
           confirmed, confirmCount>>
vars == <<connectionState, device, characteristic, currentReading, error,
          lastStableReading, handlerGen, mounted, supported, attempts, gatt,
          frameListeners, disconnectListeners, calls, lastNotified,
          disconnectCompleted, lastConnectFrom, view, parsed, ownerReading,
          ingredients, isLoadingNutrition, nutritionCall, stored, confirmed,
          confirmCount, attemptsAllowed>>

AttemptIds == 1..Len(attempts)
Pending(a) == attempts[a].pc \in PendingPcs

\* the characteristic object an attempt resolved: one per device and link generation
CharOf(a) == [dev |-> attempts[a].dev, epoch |-> attempts[a].epoch]

\* the link an attempt opened is still the device's open link
LinkAlive(a) ==
  /\ attempts[a].dev # NoDevice
  /\ gatt[attempts[a].dev].connected
  /\ gatt[attempts[a].dev].epoch = attempts[a].epoch

\* the component after its first render
ComponentInit ==
  /\ connectionState = "disconnected"
  /\ device = NoDevice
  /\ characteristic = NoCharacteristic
  /\ currentReading = NoReading
  /\ error = NoError
  /\ lastStableReading = NoReading
  /\ handlerGen = 0
  /\ mounted = TRUE
  /\ supported \in BOOLEAN
  /\ attempts = <<>>
  /\ gatt = [d \in Devices |-> [connected |-> FALSE, epoch |-> 0, notifying |-> FALSE]]
  /\ frameListeners = {}
  /\ disconnectListeners = [d \in Devices |-> 0]
  /\ calls = NoCalls
  /\ lastNotified = NoReading
  /\ disconnectCompleted = FALSE
  /\ lastConnectFrom = "none"

\* parseScaleData has not been called yet
NotCalled == [weight |-> 0, unit |-> "not called", isStable |-> FALSE]

\* no getNutritionData call is in flight
NoCall == [id |-> 0, weightInGrams |-> 0]

\* localStorage.getItem("scale-ingredients") === null
NoItem == [present |-> FALSE, value |-> <<>>]

\* ScaleApp after construction, with nothing persisted yet
OwnerInit ==
  /\ ownerReading = NoReading
  /\ ingredients = <<>>
  /\ isLoadingNutrition = FALSE
  /\ nutritionCall = NoCall
  /\ stored = NoItem
  /\ confirmed = <<>>
  /\ confirmCount = 0

Init ==
  /\ ComponentInit
  /\ view = <<>>
  /\ parsed = NotCalled
  /\ OwnerInit
  /\ attemptsAllowed = MaxAttempts

(* ------------------------- the connection button ------------------------ *)
\* onClick={connectionState === "connected" ? disconnect : connectToScaleDevice}
ButtonAction(state) == IF state = "connected" THEN "disconnect" ELSE "connect"

\* variant: the button is never disabled
ButtonDisabledNever(state) == FALSE

\* disabled={connectionState === "connecting"}
ButtonDisabled(state) == state = "connecting"

(* --------------------------- connectToScaleDevice ------------------------ *)
\* The click: the synchronous part of connectToScaleDevice, up to the first
\* await.  The attempt keeps the handler of the render in which it was clicked.
ConnectToScaleDevice ==
  /\ mounted
  /\ ButtonAction(connectionState) = "connect"
  /\ ~ButtonDisabled(connectionState)
  /\ IF ~supported
     THEN /\ error' = UnsupportedMessage
          /\ connectionState' = "error"
          /\ UNCHANGED attempts
     ELSE /\ Len(attempts) < attemptsAllowed
          /\ connectionState' = "connecting"
          /\ error' = NoError
          /\ attempts' = Append(attempts,
                [pc |-> "requestDevice", dev |-> NoDevice, epoch |-> 0,
                 gen |-> handlerGen, lsr |-> lastStableReading,
                 cancelled |-> FALSE])
  /\ disconnectCompleted' = FALSE
  /\ lastConnectFrom' = connectionState
  /\ calls' = NoCalls
  /\ UNCHANGED <<device, characteristic, currentReading, lastStableReading,
                 handlerGen, mounted, supported, gatt, frameListeners,
                 disconnectListeners, lastNotified>>
  /\ UNCHANGED <<direct, owner, attemptsAllowed>>

\* await requestScaleDevice() resolved with the chosen device; setDevice; then
\* connectToScale calls device.gatt.connect()
RequestDeviceResolve(a, d) ==
  /\ attempts[a].pc = "requestDevice"
  /\ supported
  /\ attempts' = [attempts EXCEPT ![a].pc = "gattConnect", ![a].dev = d]
  /\ device' = IF mounted THEN d ELSE device
  /\ calls' = NoCalls
  /\ UNCHANGED <<connectionState, characteristic, currentReading, error,
                 lastStableReading, handlerGen, mounted, supported, gatt,
                 frameListeners, disconnectListeners, history>>
  /\ UNCHANGED <<direct, owner, attemptsAllowed>>

\* device.gatt.connect() resolved: the link of the device is open
GattConnectResolve(a) ==
  /\ attempts[a].pc = "gattConnect"
  /\ gatt' = [gatt EXCEPT ![attempts[a].dev].connected = TRUE]
  /\ attempts' = [attempts EXCEPT ![a].pc = "getPrimaryService",
                                  ![a].epoch = gatt[attempts[a].dev].epoch]
  /\ calls' = NoCalls
  /\ UNCHANGED <<compState, mounted, supported, frameListeners,
                 disconnectListeners, history>>
  /\ UNCHANGED <<direct, owner, attemptsAllowed>>

\* server.getPrimaryService(SCALE_SERVICE_UUID) resolved (needs the link)
GetPrimaryServiceResolve(a) ==
  /\ attempts[a].pc = "getPrimaryService"
  /\ LinkAlive(a)
  /\ attempts' = [attempts EXCEPT ![a].pc = "getCharacteristic"]
  /\ calls' = NoCalls
  /\ UNCHANGED <<compState, mounted, supported, gatt, frameListeners,
                 disconnectListeners, history>>
  /\ UNCHANGED <<direct, owner, attemptsAllowed>>

\* variant: "connected" is set as soon as the characteristic is resolved,
\* before notifications are enabled
GetCharacteristicResolveEarly(a) ==
  /\ attempts[a].pc = "getCharacteristic"
  /\ LinkAlive(a)
  /\ attempts' = [attempts EXCEPT ![a].pc = "startNotifications"]
  /\ characteristic' = IF mounted THEN CharOf(a) ELSE characteristic
  /\ connectionState' = IF mounted THEN "connected" ELSE connectionState
  /\ calls' = NoCalls
  /\ UNCHANGED <<device, currentReading, error,
                 lastStableReading, handlerGen, mounted, supported, gatt,
                 frameListeners, disconnectListeners, history>>
  /\ UNCHANGED <<direct, owner, attemptsAllowed>>

\* service.getCharacteristic(...) resolved: connectToScale returns, then
\* setCharacteristic(char) and char.startNotifications() is called
GetCharacteristicResolve(a) ==
  /\ attempts[a].pc = "getCharacteristic"
  /\ LinkAlive(a)
  /\ attempts' = [attempts EXCEPT ![a].pc = "startNotifications"]
  /\ characteristic' = IF mounted THEN CharOf(a) ELSE characteristic
  /\ calls' = NoCalls
  /\ UNCHANGED <<connectionState, device, currentReading, error,
                 lastStableReading, handlerGen, mounted, supported, gatt,
                 frameListeners, disconnectListeners, history>>
  /\ UNCHANGED <<direct, owner, attemptsAllowed>>

\* await char.startNotifications() resolved: both listeners are added and the
\* state becomes "connected"
StartNotificationsResolve(a) ==
  /\ attempts[a].pc = "startNotifications"
  /\ LinkAlive(a)
  /\ gatt' = [gatt EXCEPT ![attempts[a].dev].notifying = TRUE]
  /\ frameListeners' = frameListeners \cup
        {[dev |-> attempts[a].dev, epoch |-> attempts[a].epoch,
          gen |-> attempts[a].gen, lsr |-> attempts[a].lsr]}
  /\ disconnectListeners' =
        [disconnectListeners EXCEPT ![attempts[a].dev] = @ + 1]
  /\ connectionState' = IF mounted THEN "connected" ELSE connectionState
  /\ attempts' = [attempts EXCEPT ![a].pc = "done"]
  /\ calls' = NoCalls
  /\ UNCHANGED <<device, characteristic, currentReading, error,
                 lastStableReading, handlerGen, mounted, supported, history>>
  /\ UNCHANGED <<direct, owner, attemptsAllowed>>

\* variant: the catch block stores the message but leaves the state alone
CatchKeepsState(a, err) ==
  /\ attempts' = [attempts EXCEPT ![a].pc = "failed"]
  /\ error' = IF mounted THEN ErrMessage(err) ELSE error
  /\ calls' = [NoCalls EXCEPT !.caught = ErrMessage(err)]
  /\ UNCHANGED <<connectionState, device, characteristic, currentReading,
                 lastStableReading, handlerGen, mounted, supported, gatt,
                 frameListeners, disconnectListeners, lastNotified,
                 disconnectCompleted, lastConnectFrom>>
  /\ UNCHANGED <<direct, owner, attemptsAllowed>>

\* the catch block: the awaited step of the attempt threw err
Catch(a, err) ==
  /\ attempts' = [attempts EXCEPT ![a].pc = "failed"]
  /\ error' = IF mounted THEN ErrMessage(err) ELSE error
  /\ connectionState' = IF mounted THEN "error" ELSE connectionState
  /\ calls' = [NoCalls EXCEPT !.caught = ErrMessage(err)]
  /\ UNCHANGED <<device, characteristic, currentReading, lastStableReading,
                 handlerGen, mounted, supported, gatt, frameListeners,
                 disconnectListeners, lastNotified, disconnectCompleted,
                 lastConnectFrom>>
  /\ UNCHANGED <<direct, owner, attemptsAllowed>>

\* any awaited handshake step rejects
StepReject(a, err) ==
  /\ Pending(a)
  /\ err \in Thrown
  /\ Catch(a, err)

(* -------------------- handleCharacteristicValueChanged ------------------- *)
\* the listeners registered on the characteristic object of d's open link
ListenersOn(d) == {l \in frameListeners : l.dev = d /\ l.epoch = gatt[d].epoch}

\* variant: the isStable test is missing
IsNewStableAnyReading(lsr, reading) ==
  lsr = NoReading \/ lsr.weight # reading.weight \/ lsr.unit # reading.unit

\* the condition under which a listener calls setLastStableReading and
\* onStableReading: it compares with the lastStableReading it captured
IsNewStable(lsr, reading) ==
  /\ reading.isStable
  /\ (lsr = NoReading \/ lsr.weight # reading.weight \/ lsr.unit # reading.unit)

\* if (!data) return; const reading = parseScaleData(data): what the handler
\* decodes from each notification (the decoder is pure)
ReadingOf ==
  [ev \in Notifications |->
     IF ev.hasValue THEN parseScaleData(ev.data) ELSE NoReading]

\* variant: setCurrentReading(reading) runs without the if (reading) test
HandleCharacteristicValueChangedNoNullCheck(d, ev) ==
  LET reading == ReadingOf[ev]
      decoded == reading # NoReading
      callers == {l \in ListenersOn(d) : decoded /\ IsNewStable(l.lsr, reading)}
      n == Cardinality(callers)
  IN /\ gatt[d].connected
     /\ gatt[d].notifying
     /\ ListenersOn(d) # {}
     /\ handlerGen < MaxGen
     /\ currentReading' = IF mounted THEN reading ELSE currentReading
     /\ lastStableReading' = IF mounted /\ n > 0 THEN reading ELSE lastStableReading
     /\ handlerGen' = IF mounted /\ n > 0 THEN handlerGen + 1 ELSE handlerGen
     /\ calls' = [NoCalls EXCEPT !.notify = n,
                                 !.frame = IF decoded THEN "reading" ELSE "none"]
     /\ lastNotified' = IF n > 0 THEN reading ELSE lastNotified
     /\ UNCHANGED <<connectionState, device, characteristic, error, mounted,
                    supported, attempts, gatt, frameListeners,
                    disconnectListeners, disconnectCompleted, lastConnectFrom>>
     /\ UNCHANGED <<direct, owner, attemptsAllowed>>

\* One "characteristicvaluechanged" event on d's characteristic: every
\* listener registered on it runs handleCharacteristicValueChanged.  A call of
\* onStableReading re-renders the owner, which passes a new onStableReading.
HandleCharacteristicValueChanged(d, ev) ==
  LET reading == ReadingOf[ev]
      decoded == reading # NoReading
      callers == {l \in ListenersOn(d) : decoded /\ IsNewStable(l.lsr, reading)}
      n == Cardinality(callers)
  IN /\ gatt[d].connected
     /\ gatt[d].notifying
     /\ ListenersOn(d) # {}
     /\ handlerGen < MaxGen
     /\ currentReading' = IF mounted /\ decoded THEN reading ELSE currentReading
     /\ lastStableReading' = IF mounted /\ n > 0 THEN reading ELSE lastStableReading
     /\ handlerGen' = IF mounted /\ n > 0 THEN handlerGen + 1 ELSE handlerGen
     /\ calls' = [NoCalls EXCEPT !.notify = n,
                                 !.frame = IF decoded THEN "reading" ELSE "none"]
     /\ lastNotified' = IF n > 0 THEN reading ELSE lastNotified
     /\ UNCHANGED <<connectionState, device, characteristic, error, mounted,
                    supported, attempts, gatt, frameListeners,
                    disconnectListeners, disconnectCompleted, lastConnectFrom>>
     /\ UNCHANGED <<direct, owner, attemptsAllowed>>

\* the owner re-renders for a reason of its own and passes a new
\* onStableReading, so the memoised handler gets a new identity
OwnerRender ==
  /\ mounted
  /\ handlerGen < MaxGen
  /\ handlerGen' = handlerGen + 1
  /\ calls' = NoCalls
  /\ UNCHANGED <<connectionState, device, characteristic, currentReading, error,
                 lastStableReading, mounted, supported, attempts, gatt,
                 frameListeners, disconnectListeners, history>>
  /\ UNCHANGED <<direct, owner, attemptsAllowed>>

(* ------------------------ gattserverdisconnected ------------------------ *)
\* the link of d is closed: its attribute objects are dropped
LinkClosed(d) ==
  [gatt EXCEPT ![d] = [connected |-> FALSE, epoch |-> @.epoch + 1, notifying |-> FALSE]]

\* The transport lost the link of d: "gattserverdisconnected" is dispatched on
\* the device and every listener the component ever added to it runs.
GattServerDisconnected(d) ==
  /\ gatt[d].connected
  /\ gatt' = LinkClosed(d)
  /\ IF mounted /\ disconnectListeners[d] > 0
     THEN /\ connectionState' = "disconnected"
          /\ device' = NoDevice
          /\ characteristic' = NoCharacteristic
          /\ currentReading' = NoReading
     ELSE UNCHANGED <<connectionState, device, characteristic, currentReading>>
  /\ calls' = NoCalls
  /\ UNCHANGED <<error, lastStableReading, handlerGen, mounted, supported,
                 attempts, frameListeners, disconnectListeners, history>>
  /\ UNCHANGED <<direct, owner, attemptsAllowed>>

(* ------------------------------ disconnect ------------------------------ *)
\* disconnect() of a render whose closure holds capCharacteristic, capDevice
\* and the handler capGen.  device.gatt.disconnect() dispatches
\* "gattserverdisconnected" synchronously; its listeners set the same state
\* that disconnect sets right after.  Handshakes pending at the call are marked.
Disconnect(capCharacteristic, capDevice, capGen) ==
  /\ frameListeners' =
       IF capCharacteristic # NoCharacteristic
       THEN frameListeners \ {l \in frameListeners :
               /\ l.dev = capCharacteristic.dev
               /\ l.epoch = capCharacteristic.epoch
               /\ l.gen = capGen}
       ELSE frameListeners
  /\ gatt' = IF capDevice # NoDevice /\ gatt[capDevice].connected
             THEN LinkClosed(capDevice) ELSE gatt
  /\ calls' = [NoCalls EXCEPT
                 !.close = IF capDevice # NoDevice /\ gatt[capDevice].connected
                           THEN 1 ELSE 0,
                 !.remove = IF capCharacteristic # NoCharacteristic THEN 1 ELSE 0]
  /\ attempts' = [a \in AttemptIds |->
                    IF Pending(a) THEN [attempts[a] EXCEPT !.cancelled = TRUE]
                    ELSE attempts[a]]

\* variant: disconnect() forgets setConnectionState("disconnected")
DisconnectClickKeepsState ==
  /\ mounted
  /\ ButtonAction(connectionState) = "disconnect"
  /\ ~ButtonDisabled(connectionState)
  /\ Disconnect(characteristic, device, handlerGen)
  /\ device' = NoDevice
  /\ characteristic' = NoCharacteristic
  /\ currentReading' = NoReading
  /\ error' = NoError
  /\ disconnectCompleted' = TRUE
  /\ UNCHANGED <<connectionState, lastStableReading, handlerGen, mounted,
                 supported, disconnectListeners, lastNotified,
                 lastConnectFrom>>
  /\ UNCHANGED <<direct, owner, attemptsAllowed>>

\* the Disconnect button: disconnect() of the current render
DisconnectClick ==
  /\ mounted
  /\ ButtonAction(connectionState) = "disconnect"
  /\ ~ButtonDisabled(connectionState)
  /\ Disconnect(characteristic, device, handlerGen)
  /\ connectionState' = "disconnected"
  /\ device' = NoDevice
  /\ characteristic' = NoCharacteristic
  /\ currentReading' = NoReading
  /\ error' = NoError
  /\ disconnectCompleted' = TRUE
  /\ UNCHANGED <<lastStableReading, handlerGen, mounted, supported,
                 disconnectListeners, lastNotified,
                 lastConnectFrom>>
  /\ UNCHANGED <<direct, owner, attemptsAllowed>>

\* disconnect() has no try/catch: when removeEventListener or
\* device.gatt.disconnect() throws, the statements after the call do not run
\* and the exception leaves the click handler
DisconnectThrows(thrower) ==
  /\ mounted
  /\ ButtonAction(connectionState) = "disconnect"
  /\ ~ButtonDisabled(connectionState)
  /\ IF thrower = "removeEventListener"
     THEN /\ characteristic # NoCharacteristic
          /\ UNCHANGED frameListeners
          /\ calls' = [NoCalls EXCEPT !.remove = 1, !.escaped = TRUE]
     ELSE /\ device # NoDevice
          /\ gatt[device].connected
          /\ frameListeners' =
               IF characteristic # NoCharacteristic
               THEN frameListeners \ {l \in frameListeners :
                       /\ l.dev = characteristic.dev
                       /\ l.epoch = characteristic.epoch
                       /\ l.gen = handlerGen}
               ELSE frameListeners
          /\ calls' = [NoCalls EXCEPT
                         !.remove = IF characteristic # NoCharacteristic THEN 1 ELSE 0,
                         !.close = 1,
                         !.escaped = TRUE]
  /\ attempts' = [a \in AttemptIds |->
                    IF Pending(a) THEN [attempts[a] EXCEPT !.cancelled = TRUE]
                    ELSE attempts[a]]
  /\ UNCHANGED <<compState, mounted, supported, gatt, disconnectListeners,
                 history, direct, owner, attemptsAllowed>>

\* useEffect(() => () => disconnect(), []): the cleanup holds disconnect() of
\* the first render, in which characteristic and device are null
Unmount ==
  /\ mounted
  /\ mounted' = FALSE
  /\ Disconnect(NoCharacteristic, NoDevice, 0)
  /\ UNCHANGED <<compState, supported, disconnectListeners, lastNotified, disconnectCompleted, lastConnectFrom>>
  /\ UNCHANGED <<direct, owner, attemptsAllowed>>

(* --------------------------------- Next --------------------------------- *)
Next ==
  \/ ConnectToScaleDevice
  \/ \E a \in AttemptIds, d \in Devices : RequestDeviceResolve(a, d)
  \/ \E a \in AttemptIds : GattConnectResolve(a)
  \/ \E a \in AttemptIds : GetPrimaryServiceResolve(a)
  \/ \E a \in AttemptIds : GetCharacteristicResolve(a)
  \/ \E a \in AttemptIds : StartNotificationsResolve(a)
  \/ \E a \in AttemptIds : \E err \in Thrown : StepReject(a, err)
  \/ \E d \in Devices, ev \in Notifications : HandleCharacteristicValueChanged(d, ev)
  \/ OwnerRender
  \/ \E d \in Devices : GattServerDisconnected(d)
  \/ DisconnectClick
  \/ \E thrower \in {"removeEventListener", "gatt.disconnect"} : DisconnectThrows(thrower)
  \/ Unmount

Spec == Init /\ [][Next]_vars

\* the component from construction, with one more connect attempt
LongInit ==
  /\ ComponentInit
  /\ view = <<>>
  /\ parsed = NotCalled
  /\ OwnerInit
  /\ attemptsAllowed = MoreAttempts

LongSpec == LongInit /\ [][Next]_vars

\* a GATT operation an attempt awaits settles: it resolves, or it rejects (the
\* browser rejects the operations pending on a link when the link closes)
GattStepSettles(a) ==
  /\ a \in AttemptIds
  /\ attempts[a].pc # "requestDevice"
  /\ \/ GattConnectResolve(a)
     \/ GetPrimaryServiceResolve(a)
     \/ GetCharacteristicResolve(a)
     \/ StartNotificationsResolve(a)
     \/ \E err \in Thrown : StepReject(a, err)

\* Spec in which every awaited GATT operation eventually settles
FairSpec == Spec /\ \A a \in 1..MaxAttempts : WF_vars(GattStepSettles(a))

(* ===================== parseScaleData called directly =================== *)
\* a DataView of n bytes over the first bytes of f, zero beyond them
Resized(f, n) == [i \in 1..n |-> IF i <= Len(f) THEN f[i] ELSE 0]

\* 12-byte frame, zero except for a Method 2 candidate at a scan offset:
\* sign byte before it, 16-bit big-endian rawWeight, unit code, stable byte
Candidate(offset, rawWeight, unitCode, signByte, stableByte) ==
  [i \in 1..12 |->
     CASE i = offset     -> signByte
       [] i = offset + 1 -> rawWeight \div 256
       [] i = offset + 2 -> rawWeight % 256
       [] i = offset + 3 -> unitCode
       [] i = offset + 4 -> stableByte
       [] OTHER          -> 0]

\* the Method 1 layout (sign at offset 10, little-endian magnitude at offsets
\* 11..12) in a DataView of n bytes: a 12-byte view ends after offset 11
Method1Layout(n, signByte, magnitude) ==
  [i \in 1..n |->
     CASE i = 11 -> signByte
       [] i = 12 -> magnitude % 256
       [] i = 13 -> magnitude \div 256
       [] OTHER  -> 0]

ScanOffsets == 0..8
RawWeights == {0, 1, 500, 1500, 4999, 5000, 5001, 9999, 10000, 50000}
Magnitudes == {1500, 50000}
SignBytes == {0, 1}
StableBytes == {0, 1, 2}
UnitCodes == 0..MaxUnitCode
FrameLengths == 0..MaxFrameLen

DecodeFrames ==
  {Candidate(o, r, u, s, st) :
      o \in ScanOffsets, r \in RawWeights, u \in UnitCodes,
      s \in SignBytes, st \in StableBytes}
  \cup {Method1Layout(n, s, m) : n \in {12, MaxFrameLen}, s \in SignBytes, m \in Magnitudes}
  \cup {Resized(Candidate(0, r, u, 0, 1), n) :
      r \in {0, 500}, u \in {0, 2}, n \in FrameLengths}

\* one call of parseScaleData(view)
ParseScaleData ==
  /\ parsed = NotCalled
  /\ parsed' = parseScaleData(view)
  /\ UNCHANGED <<view, compState, mounted, supported, attempts, gatt,
                 frameListeners, disconnectListeners, calls, history, owner,
                 attemptsAllowed>>

DecodeInit ==
  /\ ComponentInit
  /\ view \in DecodeFrames
  /\ parsed = NotCalled
  /\ OwnerInit
  /\ attemptsAllowed = MaxAttempts

DecodeNext == ParseScaleData

DecodeSpec == DecodeInit /\ [][DecodeNext]_vars

(* ------------------------------- ScaleApp ------------------------------- *)
\* confirmations submitted in one run of the model
MaxConfirms == 12

\* newIngredients.slice(-10): the entries kept
KeptIngredients == 10

\* the product of a number and an undefined table entry
NaN == -1

\* convertWeight's toGrams table, in ten-thousandths of a gram per unit
toGrams == [u \in {"g", "oz", "lb", "kg"} |->
              CASE u = "g" -> 10000
                [] u = "oz" -> 283495
                [] u = "lb" -> 4535920
                [] u = "kg" -> 10000000]

\* convertWeight(weight, fromUnit, toUnit), weights in tenths of their unit:
\* fromGrams[toUnit] is 1 / toGrams[toUnit]
convertWeight(weight, fromUnit, toUnit) ==
  IF fromUnit = toUnit THEN weight
  ELSE IF fromUnit \notin DOMAIN toGrams \/ toUnit \notin DOMAIN toGrams THEN NaN
  ELSE (weight * toGrams[fromUnit]) \div toGrams[toUnit]

\* Array.prototype.slice(-n)
SliceLast(s, n) == IF Len(s) <= n THEN s ELSE SubSeq(s, Len(s) - n + 1, Len(s))

\* the persist effect: if (ingredients.length > 0) localStorage.setItem(...)
Persist(list, item) ==
  IF Len(list) > 0 THEN [present |-> TRUE, value |-> list] ELSE item

\* frames of a scale in grams, ounces and millilitres, each stable
OwnerFrames ==
  { WeightFrame(0, 100, 0, 1), WeightFrame(0, 100, 1, 1), WeightFrame(0, 100, 4, 1) }

\* the readings ScaleConnector passes to onStableReading for those frames
StableReadings ==
  {r \in {parseScaleData(f) : f \in OwnerFrames} : r # NoReading /\ r.isStable}

\* handleStableReading: onStableReading={handleStableReading}
HandleStableReading(reading) ==
  /\ ownerReading' = reading
  /\ UNCHANGED <<ingredients, isLoadingNutrition, nutritionCall, stored,
                 confirmed, confirmCount>>
  /\ UNCHANGED <<compState, mounted, supported, attempts, gatt, frameListeners,
                 disconnectListeners, calls, history, direct,
                 attemptsAllowed>>

\* The form is submitted (IngredientForm: canConfirm, button and input not
\* disabled by isLoading): handleIngredientConfirm up to its await, with
\* getNutritionData up to the await of its lookup.
HandleIngredientConfirm ==
  /\ ownerReading # NoReading
  /\ ownerReading.isStable
  /\ ownerReading.weight > 0
  /\ ~isLoadingNutrition
  /\ confirmCount < MaxConfirms
  /\ isLoadingNutrition' = TRUE
  /\ confirmCount' = confirmCount + 1
  /\ nutritionCall' =
       [id |-> confirmCount + 1,
        weightInGrams |-> convertWeight(ownerReading.weight, ownerReading.unit, "g")]
  /\ UNCHANGED <<ownerReading, ingredients, stored, confirmed>>
  /\ UNCHANGED <<compState, mounted, supported, attempts, gatt, frameListeners,
                 disconnectListeners, calls, history, direct,
                 attemptsAllowed>>

\* variant: the new entry is appended and nothing is dropped
GetNutritionDataResolveKeepsAll ==
  LET newIngredients == Append(ingredients, nutritionCall.id)
  IN /\ nutritionCall # NoCall
     /\ ingredients' = newIngredients
     /\ ownerReading' = NoReading
     /\ isLoadingNutrition' = FALSE
     /\ nutritionCall' = NoCall
     /\ stored' = Persist(ingredients', stored)
     /\ confirmed' = Append(confirmed, nutritionCall.id)
     /\ UNCHANGED confirmCount
     /\ UNCHANGED <<compState, mounted, supported, attempts, gatt, frameListeners,
                    disconnectListeners, calls, history, direct,
                 attemptsAllowed>>

\* getNutritionData resolves (the lookup returns null and the mock data are
\* used: it never rejects): the rest of handleIngredientConfirm, its finally,
\* and the persist effect of the render that follows.
GetNutritionDataResolve ==
  LET newIngredients == Append(ingredients, nutritionCall.id)
  IN /\ nutritionCall # NoCall
     /\ ingredients' = SliceLast(newIngredients, KeptIngredients)
     /\ ownerReading' = NoReading
     /\ isLoadingNutrition' = FALSE
     /\ nutritionCall' = NoCall
     /\ stored' = Persist(ingredients', stored)
     /\ confirmed' = Append(confirmed, nutritionCall.id)
     /\ UNCHANGED confirmCount
     /\ UNCHANGED <<compState, mounted, supported, attempts, gatt, frameListeners,
                    disconnectListeners, calls, history, direct,
                 attemptsAllowed>>

\* handleClearAll, from the Clear All button shown while the list is not
\* empty; the persist effect that follows sees an empty list
HandleClearAll ==
  /\ Len(ingredients) > 0
  /\ ingredients' = <<>>
  /\ stored' = Persist(ingredients', NoItem)
  /\ confirmed' = <<>>
  /\ UNCHANGED <<ownerReading, isLoadingNutrition, nutritionCall, confirmCount>>
  /\ UNCHANGED <<compState, mounted, supported, attempts, gatt, frameListeners,
                 disconnectListeners, calls, history, direct,
                 attemptsAllowed>>

\* The page is loaded again: ScaleApp is constructed anew, its load effect
\* reads the stored item and its persist effect follows.  A getNutritionData
\* call in flight resolves into the discarded component.
Reload ==
  /\ ownerReading' = NoReading
  /\ isLoadingNutrition' = FALSE
  /\ nutritionCall' = NoCall
  /\ ingredients' = IF stored.present THEN stored.value ELSE <<>>
  /\ stored' = Persist(ingredients', stored)
  /\ UNCHANGED <<confirmed, confirmCount>>
  /\ UNCHANGED <<compState, mounted, supported, attempts, gatt, frameListeners,
                 disconnectListeners, calls, history, direct,
                 attemptsAllowed>>

HistoryInit == Init

HistoryNext ==
  \/ \E reading \in StableReadings : HandleStableReading(reading)
  \/ HandleIngredientConfirm
  \/ GetNutritionDataResolve
  \/ HandleClearAll
  \/ Reload

HistorySpec == HistoryInit /\ [][HistoryNext]_vars

(* ================================ claims ================================ *)
SameKey(r1, r2) == r1.weight = r2.weight /\ r1.unit = r2.unit

\* frame listeners registered on a characteristic object
ListenersOfChar(listeners, c) ==
  {l \in listeners : l.dev = c.dev /\ l.epoch = c.epoch}

\* C1: while a session is Active, onStableReading is invoked for a stable
\* reading only when its (weight, unit) differs from that of the most recently
\* notified stable reading, and once per such reading.
C1_StableDedup ==
  [][(mounted /\ connectionState = "connected" /\ calls'.notify > 0)
       => /\ calls'.notify = 1
          /\ (lastNotified = NoReading \/ ~SameKey(lastNotified', lastNotified))]_vars

\* C2: every exit from Active by disconnect() or by link loss removes the
\* frame listener the session registered on its characteristic.
C2_ExitRemovesListener ==
  [][(mounted /\ connectionState = "connected" /\ connectionState' = "disconnected"
        /\ characteristic # NoCharacteristic)
       => ListenersOfChar(frameListeners', characteristic) = {}]_vars

\* C3: when the component unmounts while a session is Active, the frame
\* listener is removed from the characteristic and the GATT link of the bound
\* device is closed.
C3_UnmountTeardown ==
  [][(mounted /\ ~mounted' /\ connectionState = "connected"
        /\ device # NoDevice /\ characteristic # NoCharacteristic)
       => /\ ~gatt'[device].connected
          /\ ListenersOfChar(frameListeners', characteristic) = {}]_vars

\* C4: a handshake that was pending when disconnect() was called does not
\* complete to Active, leaves the status Idle once its step has resolved or
\* failed, and leaves neither the link it opened nor a frame listener behind.
C4_CancelledHandshake ==
  \A a \in AttemptIds :
    (attempts[a].cancelled /\ ~Pending(a))
      => /\ attempts[a].pc # "done"
         /\ (mounted => connectionState = "disconnected")
         /\ ~LinkAlive(a)
         /\ ListenersOfChar(frameListeners, CharOf(a)) = {}

\* C5: whenever the status is Idle or Failed no session exists: no device and
\* no characteristic are bound and no GATT link is open.
C5_NoSessionWhenIdleOrFailed ==
  (mounted /\ connectionState \in {"disconnected", "error"})
    => /\ device = NoDevice
       /\ characteristic = NoCharacteristic
       /\ \A d \in Devices : ~gatt[d].connected

AllowedEdge(from, to) ==
  \/ <<from, to>> \in { <<"disconnected", "connecting">>, <<"error", "connecting">>,
                        <<"connecting", "connected">>, <<"connecting", "error">>,
                        <<"connected", "disconnected">> }
  \/ (~supported /\ from \in {"disconnected", "error"} /\ to = "error")

\* C6: every change of the connection status follows one of the edges
\* disconnected->connecting, error->connecting, connecting->connected,
\* connecting->error, connected->disconnected, or (disconnected|error)->error
\* for an unsupported transport.
C6_EdgesOnly ==
  [][connectionState' # connectionState
       => AllowedEdge(connectionState, connectionState')]_vars

\* C7: a handshake starts only from Idle or Failed, identically from both
\* (status becomes connecting, the error is cleared, the bound session is left
\* alone); in connecting or connected no step starts a handshake.
C7_ConnectOnlyFromIdleOrFailed ==
  [][Len(attempts') > Len(attempts)
       => /\ connectionState \in {"disconnected", "error"}
          /\ connectionState' = "connecting"
          /\ error' = NoError
          /\ UNCHANGED <<device, characteristic>>]_vars

\* a retry: connect was clicked in status error and the handshake started
C7_RetryFromFailed ==
  /\ lastConnectFrom = "error"
  /\ connectionState = "connecting"
  /\ error = NoError
  /\ \E a \in AttemptIds : attempts[a].pc = "requestDevice"

NextPc(pc) ==
  CASE pc = "requestDevice" -> "gattConnect"
    [] pc = "gattConnect" -> "getPrimaryService"
    [] pc = "getPrimaryService" -> "getCharacteristic"
    [] pc = "getCharacteristic" -> "startNotifications"
    [] pc = "startNotifications" -> "done"
    [] OTHER -> pc

\* C8: the status becomes Active only in the step in which an attempt's
\* startNotifications resolves, that attempt having gone through device
\* selection, link, service, characteristic and notifications in this order,
\* with its link open and notifying.
C8_ActiveOnlyAfterHandshake ==
  [][/\ (connectionState' = "connected" /\ connectionState # "connected")
          => \E a \in AttemptIds :
               /\ attempts[a].pc = "startNotifications"
               /\ attempts'[a].pc = "done"
               /\ attempts[a].dev # NoDevice
               /\ gatt'[attempts[a].dev].connected
               /\ gatt'[attempts[a].dev].notifying
               /\ gatt'[attempts[a].dev].epoch = attempts[a].epoch
     /\ \A a \in AttemptIds :
          attempts'[a].pc # attempts[a].pc
            => /\ Pending(a)
               /\ attempts'[a].pc \in {NextPc(attempts[a].pc), "failed"}]_vars

\* a completed handshake made the status connected, its link still open
C8_ActiveReached ==
  /\ connectionState = "connected"
  /\ \E a \in AttemptIds : attempts[a].pc = "done" /\ LinkAlive(a)

C10_FailureEndsFailed ==
  [][/\ \A a \in AttemptIds :
          (Pending(a) /\ attempts'[a].pc = "failed")
            => /\ calls'.caught # NoError
               /\ mounted => (connectionState' = "error" /\ error' = calls'.caught)
     /\ \A a \in AttemptIds : attempts[a].pc = "failed" => attempts'[a].pc = "failed"
     /\ (ConnectToScaleDevice /\ ~supported)
          => /\ connectionState' = "error"
             /\ error' = UnsupportedMessage
             /\ attempts' = attempts
     /\ (connectionState' = "connected" /\ connectionState # "connected")
          => \E a \in AttemptIds : Pending(a) /\ attempts'[a].pc = "done"]_vars

\* a handshake step has just thrown and the catch block stored its message
C10_HandshakeFailed ==
  /\ mounted
  /\ connectionState = "error"
  /\ error = calls.caught
  /\ calls.caught # NoError
  /\ \E a \in AttemptIds : attempts[a].pc = "failed"

\* the link an attempt opened was lost while the attempt awaits startNotifications
LinkLostInHandshake(a) ==
  /\ a \in AttemptIds
  /\ mounted
  /\ attempts[a].pc = "startNotifications"
  /\ ~attempts[a].cancelled
  /\ ~LinkAlive(a)

IdleAndCleared ==
  /\ connectionState = "disconnected"
  /\ device = NoDevice
  /\ characteristic = NoCharacteristic
  /\ currentReading = NoReading

\* C11: whenever the link is lost after device and characteristic were bound,
\* before or after the handshake completed, the status eventually becomes
\* disconnected with device, characteristic and current reading cleared (as
\* long as the component stays mounted).
C11_LinkLossLeadsToIdle ==
  /\ \A a \in 1..MaxAttempts :
       LinkLostInHandshake(a) ~> (IdleAndCleared \/ ~mounted)
  /\ [][\A d \in Devices :
          (mounted /\ connectionState = "connected" /\ device = d
             /\ GattServerDisconnected(d)) => IdleAndCleared']_vars

\* C12: an explicit disconnect() from connected always ends with status
\* disconnected and device, characteristic, current reading and error cleared,
\* also when removeEventListener or gatt.disconnect() throws, and no exception
\* leaves disconnect().
C12_DisconnectSwallowsTeardownErrors ==
  [][(\/ DisconnectClick
      \/ \E thrower \in {"removeEventListener", "gatt.disconnect"} :
            DisconnectThrows(thrower))
       => /\ IdleAndCleared'
          /\ error' = NoError
          /\ ~calls'.escaped]_vars

\* frame listeners that can still receive frames: their characteristic belongs
\* to the open link of its device
LiveListeners ==
  {l \in frameListeners : gatt[l.dev].connected /\ gatt[l.dev].epoch = l.epoch}

\* C13: in every reachable state at most one device has an open GATT link and
\* at most one frame listener is live.
C13_SingleSession ==
  /\ Cardinality({d \in Devices : gatt[d].connected}) <= 1
  /\ Cardinality(LiveListeners) <= 1

\* C14: a notification that decodes to no reading (heartbeat, no acceptable
\* value, or no value at all) leaves status, error, device, characteristic,
\* current reading and last stable reading unchanged, invokes no
\* onStableReading, and leaves the frame listeners and the notifying link as
\* they were, so the next frame is handled as usual.
C14_UndecodedFrameNoEffect ==
  [][\A d \in Devices, ev \in Notifications :
       (ReadingOf[ev] = NoReading /\ HandleCharacteristicValueChanged(d, ev))
         => /\ UNCHANGED <<connectionState, error, device, characteristic,
                           currentReading, lastStableReading, lastNotified>>
            /\ calls'.notify = 0
            /\ frameListeners' = frameListeners
            /\ gatt' = gatt
            /\ ListenersOn(d)' # {}]_vars

\* a frame that decoded to nothing was handled while a reading is displayed
C14_UndecodedFrameHandled ==
  /\ calls.frame = "none"
  /\ mounted
  /\ connectionState = "connected"
  /\ currentReading # NoReading
  /\ lastStableReading # NoReading

\* C15: every decoded reading replaces the current reading of the mounted
\* component, and a decoded reading with isStable = false invokes no
\* onStableReading and leaves the last stable reading unchanged.
C15_UnstableNeverNotifies ==
  [][\A d \in Devices, ev \in Notifications :
       (ReadingOf[ev] # NoReading /\ HandleCharacteristicValueChanged(d, ev))
         => /\ mounted => currentReading' = ReadingOf[ev]
            /\ ~ReadingOf[ev].isStable
                 => /\ calls'.notify = 0
                    /\ UNCHANGED <<lastStableReading, lastNotified>>]_vars

\* an unstable reading is displayed after a stable one of another weight was notified
C15_UnstableDisplayed ==
  /\ calls.frame = "reading"
  /\ mounted
  /\ ~currentReading.isStable
  /\ currentReading # NoReading
  /\ lastStableReading # NoReading
  /\ lastStableReading.weight # currentReading.weight
  /\ lastNotified = lastStableReading

(* ------------------- claims about parseScaleData (DecodeSpec) ----------- *)
\* C16: a 12-byte frame laid out for Method 1 (sign byte at offset 10,
\* little-endian magnitude m from offset 11, no unit byte) with 0 < m < 50000
\* decodes to unit g and to weight m, negated when the sign byte is nonzero;
\* m = 1500 gives 1500.0 g and -1500.0 g.
C16_Method1Decodes ==
  \A s \in SignBytes, m \in Magnitudes :
    (parsed # NotCalled /\ view = Method1Layout(12, s, m) /\ m > 0 /\ m < 50000)
      => /\ parsed.unit = "g"
         /\ parsed.weight = (IF s = 0 THEN 10 * m ELSE -10 * m)

\* C17: Method 1 rejects a magnitude of 50000, Method 2 rejects a rawWeight of
\* 10000 and a candidate whose weight is exactly 5000, so no frame decodes to
\* weight 5000.
C17_OpenUpperBounds ==
  parsed # NotCalled
    => /\ \A s \in SignBytes, n \in {12, MaxFrameLen} :
            view = Method1Layout(n, s, 50000) => parsed = NoReading
       /\ \A o \in ScanOffsets :
            GetUint16(view, o, FALSE) = 10000 => Method2Offset(view, 0) # o
       /\ parsed.weight # 50000

\* C18: Method 2 divides rawWeight by 10 exactly for the unit codes 1..6 and
\* leaves it undivided only for code 0; rawWeight 500 with code 2 gives 50.0.
C18_DivideByTen ==
  LET offset == Method2Offset(view, 0)
      rawWeight == GetUint16(view, offset, FALSE)
      unitCode == GetUint8(view, offset + 2)
  IN (parsed # NotCalled /\ parsed # NoReading /\ offset >= 0)
       => parsed.weight = (IF unitCode = 0 THEN 10 * rawWeight ELSE rawWeight)

\* C19: parseScaleData returns a reading only for a DataView of exactly 12
\* bytes; for 8 bytes and for every other length it returns null.
C19_OnlyTwelveBytesDecode ==
  (parsed # NotCalled /\ Len(view) # 12) => parsed = NoReading

\* a view longer than 12 bytes that holds a Method 2 candidate was given null
C19_LongFrameRejected ==
  /\ parsed = NoReading
  /\ Len(view) > 12
  /\ Method2(view, 0) # NoReading

\* C20: parseScaleData never throws: for every byte sequence, also when a read
\* of a method goes past the end of the view, it returns a reading or null.
C20_NeverThrows ==
  parsed # NotCalled
    => /\ parsed # Threw
       /\ \/ parsed = NoReading
          \/ /\ parsed.unit \in {UNIT_MAP[c] : c \in DOMAIN UNIT_MAP}
             /\ parsed.isStable \in BOOLEAN

\* Method 1 read past the end of a 12-byte view and the call still returned a reading
C20_ThrowCaught ==
  /\ parsed # NotCalled
  /\ parsed # NoReading
  /\ Method1Try(view) = Threw

\* C23: a reading Method 2 produces at scan offset o is stable exactly when
\* the byte at offset o + 3 equals 1; that byte lies inside the view at every
\* scan offset, so the default (stable when absent) is never taken.
C23_StableIffFlagIsOne ==
  /\ \A o \in 0..(Len(view) - 4) :
       Method2At(view, o) # NoReading
         => (Method2At(view, o).isStable <=> GetUint8(view, o + 3) = 1)
  /\ (parsed # NotCalled /\ parsed # NoReading)
       => /\ Method2Offset(view, 0) >= 0
          /\ parsed.isStable <=> GetUint8(view, Method2Offset(view, 0) + 3) = 1

\* a reading was returned as not stable because its stable byte is 2
C23_FlagTwoUnstable ==
  /\ parsed # NotCalled
  /\ parsed # NoReading
  /\ ~parsed.isStable
  /\ GetUint8(view, Method2Offset(view, 0) + 3) = 2

C27_FirstStableNotified ==
  [][\A d \in Devices, ev \in Notifications :
       ( /\ mounted
         /\ connectionState = "connected"
         /\ device = d
         /\ currentReading = NoReading
         /\ ReadingOf[ev] # NoReading
         /\ ReadingOf[ev].isStable
         /\ HandleCharacteristicValueChanged(d, ev) )
         => calls'.notify >= 1]_vars


\* C22: after any sequence of confirmations and Clear All, the ingredient
\* list holds at most 10 entries, they are the most recently confirmed ones
\* in confirmation order, and the stored item holds the same list (no item
\* when the list was cleared).
C22_HistoryKeepsLastTen ==
  /\ Len(ingredients) <= KeptIngredients
  /\ ingredients = SubSeq(confirmed,
                          IF Len(confirmed) > KeptIngredients
                          THEN Len(confirmed) - KeptIngredients + 1 ELSE 1,
                          Len(confirmed))
  /\ stored = IF ingredients = <<>> THEN NoItem
              ELSE [present |-> TRUE, value |-> ingredients]

\* more than 10 confirmations since the last Clear All: the oldest were dropped
C22_OldestDropped ==
  /\ Len(confirmed) > KeptIngredients + 1
  /\ Len(ingredients) = KeptIngredients
  /\ ingredients[1] > 2
  /\ stored.present
  /\ stored.value = ingredients

\* C26: every unit the decoder can put in a reading has an entry in
\* convertWeight's to-grams table, so getNutritionData, called with a decoded
\* reading, never computes with an undefined factor.
C26_DecodedUnitsConvert ==
  nutritionCall # NoCall => nutritionCall.weightInGrams # NaN


\* C25: whenever the status is connected, a device and a characteristic are
\* bound and the link of that device is open.
C25_ActiveIsBound ==
  (mounted /\ connectionState = "connected")
    => /\ device # NoDevice
       /\ characteristic # NoCharacteristic
       /\ gatt[device].connected

====
